---- MODULE Spec2Model ----
(***************************************************************************)
(* Model of the incremental "wrapped" summary Lambda, src/analysis.py.     *)
(*                                                                         *)
(* One handler run = one worker: it dispatches on the object key, loads    *)
(* the observation (meta) document, fetches the user's summary document,   *)
(* merges the observation into an in-memory copy and writes the copy back. *)
(* The two summary round trips (fetch, put) are separate steps, so runs    *)
(* of several workers interleave between them.                             *)
(*                                                                         *)
(* Representation:                                                         *)
(*   - a Python dict / Counter is a sequence of <<key, count>> pairs in    *)
(*     insertion order (json.loads and json.dumps keep that order);        *)
(*   - a calendar day "YYYY-MM-DD" is its index in 1..NumDays; the strings *)
(*     are zero padded, so string order is index order; None is 0;         *)
(*   - a time "HH:MM" is the number hour*100 + minute (zero padded, so     *)
(*     string order is number order);                                      *)
(*   - an exception is a result record with raised = TRUE.                 *)
(*                                                                         *)
(* A second part models lambda_handler of src/rds_preprocess_new.py: one   *)
(* run per event, with the existence check and the insert of a record as   *)
(* separate steps, so runs interleave between them (SpecRds).              *)
(***************************************************************************)
EXTENDS Integers, Sequences, FiniteSets, Bags, TLC

\* ------------------------------------------------------------------ bounds
NumWorkers == 2
NumDays    == 2
\* runs recorded in the serial history
MaxLog     == 2
\* length of the label lists given to label_to_mood
MaxLabels  == 2
\* concurrent runs of rds_preprocess_new.lambda_handler, records per event
NumRuns    == 2
MaxRecords == 2

\* --------------------------------------------------------------- constants
MAX_TIMELINE == 24

None == 0
Workers == 1..NumWorkers
Days    == 1..NumDays

META_PREFIX  == "meta/"
THUMB_PREFIX == "thumbs/"

MOOD_MAP ==
  << <<"happy",      <<"smile", "happy", "joy", "celebration", "party", "fun", "laugh">> >>,
     <<"calm",       <<"nature", "water", "sea", "ocean", "sky", "cloud", "mountain", "landscape", "sunset">> >>,
     <<"energetic",  <<"sport", "running", "exercise", "adventure", "action", "jump", "dance">> >>,
     <<"romantic",   <<"couple", "love", "candle", "flower", "date", "wedding">> >>,
     <<"melancholy", <<"rain", "fog", "mist", "night", "shadow", "dark", "alone">> >>,
     <<"neutral",    <<"person", "people", "portrait", "face", "building", "urban", "city">> >> >>

\* ------------------------------------------------------- results of a call
Ok(v)     == [raised |-> FALSE, val |-> v]
Raise(e)  == [raised |-> TRUE, exc |-> e]

\* ------------------------------------------------------ dict / Counter ops
Range(seq) == {seq[i] : i \in 1..Len(seq)}
Keys(c)    == {c[i][1] : i \in 1..Len(c)}
HasKey(c, k) == \E i \in 1..Len(c) : c[i][1] = k
\* Counter.__getitem__: a missing key reads as 0 and is not inserted
Cnt(c, k) == IF HasKey(c, k) THEN (CHOOSE p \in Range(c) : p[1] = k)[2] ELSE 0
\* c[k] += 1 : an existing key keeps its position, a new key goes last
Inc(c, k) ==
  IF HasKey(c, k)
  THEN [i \in 1..Len(c) |-> IF c[i][1] = k THEN <<k, c[i][2] + 1>> ELSE c[i]]
  ELSE Append(c, <<k, 1>>)
\* Counter.update(iterable): one increment per element of the iterable
RECURSIVE UpdateAll(_, _)
UpdateAll(c, items) ==
  IF items = <<>> THEN c ELSE UpdateAll(Inc(c, Head(items)), Tail(items))
RECURSIVE Sum(_)
Sum(c) == IF c = <<>> THEN 0 ELSE Head(c)[2] + Sum(Tail(c))
MaxCnt(c) == CHOOSE m \in {c[i][2] : i \in 1..Len(c)} : \A i \in 1..Len(c) : c[i][2] <= m
\* Counter.most_common(1)[0]: IndexError on an empty Counter, else the first
\* entry (in insertion order) that holds the maximum
most_common_1(c) ==
  IF c = <<>> THEN Raise("IndexError")
  ELSE Ok(c[CHOOSE i \in 1..Len(c) :
              /\ c[i][2] = MaxCnt(c)
              /\ \A j \in 1..(i - 1) : c[j][2] < MaxCnt(c)][1])

\* ---------------------------------------------------------- label_to_mood
\* set.__and__ accepts only a set or frozenset operand; the values of
\* MOOD_MAP are list literals, so `s & keys` raises TypeError for every s.
SetAnd(s, keys) == Raise("TypeError")

RECURSIVE MoodFrom(_, _)
MoodFrom(s, i) ==
  IF i > Len(MOOD_MAP) THEN Ok("Undefined")
  ELSE LET r == SetAnd(s, MOOD_MAP[i][2])
       IN  IF r.raised THEN r
           ELSE IF r.val # {} THEN Ok(MOOD_MAP[i][1])
           ELSE MoodFrom(s, i + 1)

label_to_mood(label_list) == MoodFrom(Range(label_list), 1)

\* -------------------------------------------------------------- color_key
Comma == -1
RECURSIVE Str(_)
Str(n) == IF n < 10 THEN <<n>> ELSE Append(Str(n \div 10), n % 10)
color_key(rgb) == Str(rgb[1]) \o <<Comma>> \o Str(rgb[2]) \o <<Comma>> \o Str(rgb[3])

\* fav_color_key.split(",") then int() of each part
RECURSIVE Split(_, _)
Split(key, cur) ==
  IF key = <<>> THEN <<cur>>
  ELSE IF Head(key) = Comma THEN <<cur>> \o Split(Tail(key), <<>>)
  ELSE Split(Tail(key), Append(cur, Head(key)))
RECURSIVE ToInt(_)
ToInt(ds) == IF ds = <<>> THEN 0 ELSE 10 * ToInt(SubSeq(ds, 1, Len(ds) - 1)) + ds[Len(ds)]
decode_color(key) == LET parts == Split(key, <<>>) IN [i \in 1..Len(parts) |-> ToInt(parts[i])]

\* ------------------------------------------------------------ hour_bucket
\* the boundary test of Night written with > where the code has >=
hour_bucket_LateNight(hour) ==
  IF hour > 21 \/ hour < 5 THEN "Night"
  ELSE IF hour < 12 THEN "Morning"
  ELSE IF hour < 17 THEN "Afternoon"
  ELSE "Evening"

hour_bucket(hour) ==
  IF hour >= 21 \/ hour < 5 THEN "Night"
  ELSE IF hour < 12 THEN "Morning"
  ELSE IF hour < 17 THEN "Afternoon"
  ELSE "Evening"

\* -------------------------------------------------------- parse_timestamp
\* A raw timestamp is [fmt, day, hour, minute]: fmt "exif" is the text
\* 'YYYY:MM:DD HH:MM:SS', "iso" is 'YYYY-MM-DDTHH:MM:SS', "isoZ" the same
\* with a trailing Z, "bad" is a text no format accepts ('not-a-date').
NoTs == [fmt |-> "none", day |-> 0, hour |-> 0, minute |-> 0]
\* ":" in ts_raw[:4]: the first four characters of every well-formed text
\* are the digits of the year, and 'not-' holds no colon either
ColonInFirst4(ts) == FALSE
\* ":" in ts_raw[4:7]: ':MM' for the exif text, '-MM' for the iso texts
ColonIn4to7(ts) == ts.fmt = "exif"
\* datetime.fromisoformat accepts the iso text (after the Z is stripped) and
\* rejects the colon-delimited date and the malformed text
fromisoformat(ts) ==
  IF ts.fmt \in {"iso", "isoZ"} THEN Ok([day |-> ts.day, hour |-> ts.hour, minute |-> ts.minute])
  ELSE Raise("ValueError")
parse_timestamp(ts, now) ==
  IF ColonInFirst4(ts) /\ ColonIn4to7(ts)
  THEN [day |-> ts.day, hour |-> ts.hour, minute |-> ts.minute]
  ELSE LET r == fromisoformat(ts) IN IF r.raised THEN now ELSE r.val

\* ------------------------------------------------------------- documents
\* meta.get("user", "unknown"): the key may be absent from the document
AbsentField == "<absent>"
Iso(d, h, m)  == [fmt |-> "iso",  day |-> d, hour |-> h, minute |-> m]
IsoZ(d, h, m) == [fmt |-> "isoZ", day |-> d, hour |-> h, minute |-> m]
Exif(d, h, m) == [fmt |-> "exif", day |-> d, hour |-> h, minute |-> m]
BadTs         == [fmt |-> "bad",  day |-> 0, hour |-> 0, minute |-> 0]

Obs(u, p, ls, cs, ct, ut) ==
  [kind |-> "obs", user |-> u, photo_id |-> p, has_labels |-> TRUE, labels |-> ls,
   dominant_colors |-> cs, capture_time |-> ct, upload_time |-> ut]

\* the observation documents the bucket may hold under meta/
Observations ==
  { Obs("alice", "p1", <<"smile", "party">>, << <<10, 10, 10>>, <<10, 10, 10>> >>,
        NoTs, IsoZ(1, 10, 0)),
    Obs("alice", "p2", <<"rain">>, << <<0, 128, 255>> >>,
        Exif(NumDays, 22, 30), Iso(NumDays, 23, 0)),
    Obs(AbsentField, "p3", <<"zzz", "zzz">>, << <<7, 7, 7>> >>,
        BadTs, Iso(1, 6, 5)) }

\* a document that parses but has no "labels" key
FieldlessDocs ==
  { [Obs("alice", "p4", <<>>, << <<1, 2, 3>> >>, NoTs, Iso(1, 9, 0)) EXCEPT !.has_labels = FALSE] }

\* what s3.get_object finds at the event's key: an observation, a document
\* lacking a field, no object, a document that is falsy after json.loads
\* ({}), or a body json.loads rejects
MetaDocs == Observations \cup FieldlessDocs
              \cup {[kind |-> "nosuchkey"], [kind |-> "empty"], [kind |-> "badjson"]}

\* an S3 event: does the key start with META_PREFIX, and what is stored there
\* (for a key outside the prefix, some observation)
Events == [in_scope : {TRUE}, meta : MetaDocs]
            \cup [in_scope : {FALSE}, meta : {m \in Observations : m.photo_id = "p1"}]

\* the processing instants utcnow() may return
Nows == {[day |-> NumDays, hour |-> 3, minute |-> 15]}

UserOf(meta) == IF meta.user = AbsentField THEN "unknown" ELSE meta.user
Users == {UserOf(m) : m \in Observations}
thumb_key_of(meta) == <<THUMB_PREFIX, meta.photo_id, ".jpg">>

NoDoc == [kind |-> "nodoc"]
Skeleton ==
  [total_photos |-> 0, label_counts |-> <<>>, mood_counts |-> <<>>,
   color_counts |-> <<>>, time_bucket_counts |-> <<>>, per_day_counts |-> <<>>,
   first_date |-> None, last_date |-> None, busiest_day |-> None,
   busiest_day_photos |-> <<>>]

\* ----------------------------------------------------- the merge, in memory
\* list.sort(key=time) is stable: equal times keep their order
RECURSIVE InsertByTime(_, _)
InsertByTime(sorted, x) ==
  IF sorted = <<>> THEN <<x>>
  ELSE IF Head(sorted).time <= x.time THEN <<Head(sorted)>> \o InsertByTime(Tail(sorted), x)
  ELSE <<x>> \o sorted
RECURSIVE SortByTime(_)
SortByTime(l) ==
  IF l = <<>> THEN <<>> ELSE InsertByTime(SortByTime(SubSeq(l, 1, Len(l) - 1)), l[Len(l)])

\* round(total / tot_days, 2), in hundredths (ties to even)
avg_per_day(total, tot_days) ==
  LET q == (total * 100) \div tot_days
      r == (total * 100) % tot_days
  IN  IF 2 * r > tot_days THEN q + 1
      ELSE IF 2 * r < tot_days THEN q
      ELSE IF q % 2 = 0 THEN q ELSE q + 1

\* lines 129-150: date range, busiest day, timeline
DatesAndTimeline(s, dt, thumb_key) ==
  LET day_str == dt.day
      s1 == [s EXCEPT
               !.first_date = IF @ = None \/ day_str < @ THEN day_str ELSE @,
               !.last_date  = IF @ = None \/ day_str > @ THEN day_str ELSE @]
      bestselling_cnt == Cnt(s1.per_day_counts, s1.busiest_day)
      today_cnt       == Cnt(s1.per_day_counts, day_str)
      s2 == IF today_cnt > bestselling_cnt
            THEN [s1 EXCEPT !.busiest_day = day_str, !.busiest_day_photos = <<>>]
            ELSE s1
  IN  IF day_str = s2.busiest_day /\ Len(s2.busiest_day_photos) < MAX_TIMELINE
      THEN [s2 EXCEPT !.busiest_day_photos =
              SortByTime(Append(@, [time |-> dt.hour * 100 + dt.minute,
                                    thumb_key |-> thumb_key]))]
      ELSE s2

\* lines 152-165: derived fields
Derived(s) ==
  LET most_label    == most_common_1(s.label_counts)
      fav_color_key == most_common_1(s.color_counts)
  IN  IF most_label.raised THEN most_label
      ELSE IF fav_color_key.raised THEN fav_color_key
      ELSE LET tot_days == (s.last_date - s.first_date) + 1
           IN  IF tot_days = 0 THEN Raise("ZeroDivisionError")
               ELSE Ok([most_common_label  |-> most_label.val,
                        favourite_color    |-> decode_color(fav_color_key.val),
                        avg_photos_per_day |-> avg_per_day(s.total_photos, tot_days)]
                       @@ s)

\* line 122: meta.get("capture_time") or meta["upload_time"]
ts_raw_of(meta) == IF meta.capture_time # NoTs THEN meta.capture_time ELSE meta.upload_time

\* lines 107-170: the summary to write, or the exception that ends the run
Merge(summary, meta, now) ==
  IF ~meta.has_labels THEN Raise("KeyError") ELSE
  LET s1 == [summary EXCEPT
               !.total_photos = @ + 1,
               !.label_counts = UpdateAll(@, meta.labels),
               !.color_counts = UpdateAll(@, [i \in 1..Len(meta.dominant_colors) |->
                                                color_key(meta.dominant_colors[i])])]
      mood == label_to_mood(meta.labels)
  IN  IF mood.raised THEN mood
      ELSE LET dt == parse_timestamp(ts_raw_of(meta), now)
               s2 == [s1 EXCEPT
                        !.mood_counts        = Inc(@, mood.val),
                        !.time_bucket_counts = Inc(@, hour_bucket(dt.hour)),
                        !.per_day_counts     = Inc(@, dt.day)]
           IN  Derived(DatesAndTimeline(s2, dt, thumb_key_of(meta)))

\* ------------------------------------------------------------------ state
VARIABLES
  store,     \* store[u]: the summary document of user u, or NoDoc
  pc,        \* pc[w]: where worker w's handler run stands
  event,     \* event[w]: the event of the run
  summary,   \* summary[w]: the summary as fetched by the run, or NoDoc
  written,   \* written[w]: the summary the run put into the store, or NoDoc
  outcome,   \* outcome[w]: how the run ended
  trips,     \* trips[w]: the store round trips the run has made, in order
  log,       \* the bag of observations merged so far, while the runs were serial
  call       \* the last direct call of a utility function, with its result
hvars == <<store, pc, event, summary, written, outcome, trips, log>>

\* src/rds_preprocess_new.py: the table and the runs of lambda_handler
VARIABLE rds
\*   rds.image_metadata[k]   the number of rows with file_name k
\*   rds.lpc[r]              where run r of lambda_handler stands
\*   rds.records[r]          the file keys of the event's records
\*   rds.record_ix[r]        the record the loop is at
\*   rds.processed_files[r]  the keys the run has inserted
\*   rds.connection[r]       "none", "open" or "closed"
\*   rds.lambda2_calls[r]    calls of invoke_lambda2 by the run
\*   rds.lambda2_invoked[r]  what invoke_lambda2 returned
\*   rds.statusCode[r]       the run's response, 0 while it runs

vars == <<store, pc, event, summary, written, outcome, trips, log, call, rds>>

NoCall == [fn |-> "none"]
\* the history is void once two runs for one user overlapped between fetch
\* and write, or once more than MaxLog runs would have to be recorded
VoidLog == [serial |-> FALSE, obs |-> EmptyBag]

InitHandler ==
  /\ store   = [u \in Users |-> NoDoc]
  /\ pc      = [w \in Workers |-> "idle"]
  /\ event   = [w \in Workers |-> [in_scope |-> FALSE, meta |-> [kind |-> "nosuchkey"]]]
  /\ summary = [w \in Workers |-> NoDoc]
  /\ written = [w \in Workers |-> NoDoc]
  /\ outcome = [w \in Workers |-> "none"]
  /\ trips   = [w \in Workers |-> <<>>]
  /\ log     = [serial |-> TRUE, obs |-> EmptyBag]

Runs == 1..NumRuns
\* the runs receive records for one object key; rows of other keys neither
\* enter the SELECT of line 42 nor change what the loop does
FileKeys == {"photo.jpg"}
\* event.get('Records', []): the file keys of the records, in order
RecordLists == UNION {[1..n -> FileKeys] : n \in 0..MaxRecords}

InitRds ==
  rds = [image_metadata  |-> [k \in FileKeys |-> 0],
         lpc             |-> [r \in Runs |-> "idle"],
         records         |-> [r \in Runs |-> <<>>],
         record_ix       |-> [r \in Runs |-> 1],
         processed_files |-> [r \in Runs |-> <<>>],
         connection      |-> [r \in Runs |-> "none"],
         lambda2_calls   |-> [r \in Runs |-> 0],
         lambda2_invoked |-> [r \in Runs |-> FALSE],
         statusCode      |-> [r \in Runs |-> 0]]

Init == InitHandler /\ call = NoCall /\ InitRds

Finish(w, how) ==
  /\ pc' = [pc EXCEPT ![w] = "done"]
  /\ outcome' = [outcome EXCEPT ![w] = how]

\* the status the invocation reports: the returned statusCode, or the
\* unhandled exception the Lambda runtime reports as a failed invocation
Reported(how) ==
  CASE how \in {"skipped", "ok"}         -> "200"
    [] how = "status500"                 -> "500"
    [] how \in {"exception", "io_error"} -> "error"
    [] OTHER                             -> "running"

\* a handler without the prefix test
InScopeUnchecked(e) == TRUE

\* line 79: meta_key.startswith(META_PREFIX)
InScope(e) == e.in_scope

\* lines 75-81: a new invocation; a key outside META_PREFIX is skipped
Dispatch(w, e) ==
  /\ pc[w] \in {"idle", "done"}
  /\ event' = [event EXCEPT ![w] = e]
  /\ summary' = [summary EXCEPT ![w] = NoDoc]
  /\ written' = [written EXCEPT ![w] = NoDoc]
  /\ trips' = [trips EXCEPT ![w] = <<>>]
  /\ IF InScope(e)
     THEN /\ pc' = [pc EXCEPT ![w] = "load"]
          /\ outcome' = [outcome EXCEPT ![w] = "none"]
     ELSE Finish(w, "skipped")
  /\ UNCHANGED <<store, log, call, rds>>

\* a handler that answers 200 where the code answers 500
AfterLoadQuiet(kind) ==
  IF kind = "badjson" THEN "exception"
  ELSE IF kind \in {"nosuchkey", "empty"} THEN "skipped"
  ELSE "fetch"

\* lines 84-87: what becomes of the run once get_object has answered with a
\* document of this kind
AfterLoad(kind) ==
  IF kind = "badjson" THEN "exception"
  ELSE IF kind \in {"nosuchkey", "empty"} THEN "status500"
  ELSE "fetch"

\* lines 83-91: read the observation; io is whether get_object answers
LoadMeta(w) ==
  /\ pc[w] = "load"
  /\ trips' = [trips EXCEPT ![w] = Append(@, "get_meta")]
  /\ \E io \in BOOLEAN :
       LET go == AfterLoad(event[w].meta.kind)
       IN  IF ~io THEN Finish(w, "io_error")
           ELSE IF go # "fetch" THEN Finish(w, go)
           ELSE /\ pc' = [pc EXCEPT ![w] = "fetch"]
                /\ UNCHANGED outcome
  /\ UNCHANGED <<store, event, summary, written, log, call, rds>>

\* lines 93-105: fetch the user's summary, or start from the skeleton
FetchSummary(w) ==
  /\ pc[w] = "fetch"
  /\ trips' = [trips EXCEPT ![w] = Append(@, "get_summary")]
  /\ \E io \in BOOLEAN :
       IF ~io THEN Finish(w, "io_error") /\ UNCHANGED <<summary, log>>
       ELSE LET u   == UserOf(event[w].meta)
                doc == store[u]
            IN  /\ summary' = [summary EXCEPT ![w] = IF doc = NoDoc THEN Skeleton ELSE doc]
                /\ pc' = [pc EXCEPT ![w] = "merge"]
                /\ log' = IF \E v \in Workers \ {w} :
                               pc[v] = "merge" /\ UserOf(event[v].meta) = u
                          THEN VoidLog ELSE log
                /\ UNCHANGED outcome
  /\ UNCHANGED <<store, event, written, call, rds>>

\* a handler that also writes its in-memory copy when the run is aborted
StoreAfterAbortWrites(w, r, io) ==
  [store EXCEPT ![UserOf(event[w].meta)] =
     IF r.raised \/ ~io THEN [summary[w] EXCEPT !.total_photos = @ + 1] ELSE r.val]

\* lines 172-173: s3_put_json is reached only when nothing raised before it,
\* and replaces the whole document when put_object answers
StoreAfter(w, r, io) ==
  IF r.raised \/ ~io THEN store
  ELSE [store EXCEPT ![UserOf(event[w].meta)] = r.val]

\* the history after a run merged meta on the day the code derives for it;
\* a run stopped by a failed put_object merged nothing
LogAfter(meta, now, r, io) ==
  IF ~meta.has_labels \/ (~r.raised /\ ~io) \/ ~log.serial THEN log
  ELSE IF BagCardinality(log.obs) >= MaxLog THEN VoidLog
  ELSE [log EXCEPT !.obs = @ (+) SetToBag({[meta |-> meta,
                                            dt   |-> parse_timestamp(ts_raw_of(meta), now)]})]

\* lines 107-175: merge in memory, then the one write
MergeAndPersist(w) ==
  /\ pc[w] = "merge"
  /\ \E now \in Nows, io \in BOOLEAN :
       LET r == Merge(summary[w], event[w].meta, now)
       IN  /\ store' = StoreAfter(w, r, io)
           /\ written' = [written EXCEPT ![w] = IF r.raised \/ ~io THEN NoDoc ELSE r.val]
           /\ trips' = [trips EXCEPT ![w] = IF r.raised THEN @ ELSE Append(@, "put_summary")]
           /\ log' = LogAfter(event[w].meta, now, r, io)
           /\ Finish(w, IF r.raised THEN "exception" ELSE IF io THEN "ok" ELSE "io_error")
  /\ UNCHANGED <<event, summary, call, rds>>

Next ==
  \/ \E w \in Workers, e \in Events : Dispatch(w, e)
  \/ \E w \in Workers : LoadMeta(w)
  \/ \E w \in Workers : FetchSummary(w)
  \/ \E w \in Workers : MergeAndPersist(w)

Spec == Init /\ [][Next]_vars

\* --------------------------------------------- the utility functions alone
\* the hours datetime.hour can hold
Hours == 0..23
LabelUniverse == {"smile", "Smile", "sunset", "rain", "zzz"}
LabelLists == UNION {[1..n -> LabelUniverse] : n \in 0..MaxLabels}
RawTimestamps ==
  {BadTs} \cup
  UNION {{Iso(d, h, m), IsoZ(d, h, m), Exif(d, h, m)} :
           d \in Days, h \in {0, 4, 10, 16, 22}, m \in {0, 30}}

CallHourBucket(h) ==
  /\ call' = [fn |-> "hour_bucket", arg |-> h, res |-> hour_bucket(h)]
  /\ UNCHANGED <<hvars, rds>>

CallParseTimestamp(ts, now) ==
  /\ call' = [fn |-> "parse_timestamp", arg |-> ts, now |-> now,
              res |-> parse_timestamp(ts, now)]
  /\ UNCHANGED <<hvars, rds>>

CallLabelToMood(ls) ==
  /\ call' = [fn |-> "label_to_mood", arg |-> ls, res |-> label_to_mood(ls)]
  /\ UNCHANGED <<hvars, rds>>

\* observations whose labels list or dominant_colors list is empty
EmptyListDocs ==
  { Obs("alice", "p5", <<>>, << <<1, 2, 3>> >>, NoTs, Iso(1, 9, 0)),
    Obs("alice", "p6", <<"rain">>, <<>>, NoTs, Iso(1, 9, 0)) }

\* lines 107-170 on their own: the merge of one observation into a summary
\* that holds no counts yet
CallMerge(meta, now) ==
  /\ call' = [fn |-> "merge", arg |-> meta, now |-> now, res |-> Merge(Skeleton, meta, now)]
  /\ UNCHANGED <<hvars, rds>>

NextPure ==
  \/ \E h \in Hours : CallHourBucket(h)
  \/ \E ts \in RawTimestamps, now \in Nows : CallParseTimestamp(ts, now)
  \/ \E ls \in LabelLists : CallLabelToMood(ls)
  \/ \E meta \in Observations \cup EmptyListDocs, now \in Nows : CallMerge(meta, now)

SpecPure == Init /\ [][NextPure]_vars

\* ------------------------------------- rds_preprocess_new.lambda_handler
\* the except clause of lines 143-148 ends the run with statusCode 500
Fail500(s, r) == [s EXCEPT !.lpc[r] = "done", !.statusCode[r] = 500]

\* lines 93-97: a new invocation connects to the database
StartRun(r, recs) ==
  /\ rds.lpc[r] = "idle"
  /\ \E ok \in BOOLEAN :
       rds' = IF ok
              THEN [rds EXCEPT !.records[r] = recs, !.connection[r] = "open",
                               !.lpc[r] = "loop"]
              ELSE Fail500([rds EXCEPT !.records[r] = recs], r)
  /\ UNCHANGED <<hvars, call>>

\* lines 40-44, 99-114: SELECT COUNT(*) for the record's key; a key that has
\* a row is skipped
CheckExists(r) ==
  /\ rds.lpc[r] = "loop" /\ rds.record_ix[r] <= Len(rds.records[r])
  /\ \E ok \in BOOLEAN :
       rds' = IF ~ok THEN Fail500(rds, r)
              ELSE IF rds.image_metadata[rds.records[r][rds.record_ix[r]]] > 0
              THEN [rds EXCEPT !.record_ix[r] = @ + 1]
              ELSE [rds EXCEPT !.lpc[r] = "insert"]
  /\ UNCHANGED <<hvars, call>>

\* lines 46-59, 116-122: INSERT one row; a failed insert is reported and the
\* loop goes on
InsertMetadata(r) ==
  /\ rds.lpc[r] = "insert"
  /\ LET file_key == rds.records[r][rds.record_ix[r]]
     IN  \E success \in BOOLEAN :
           rds' = IF success
                  THEN [rds EXCEPT !.image_metadata[file_key] = @ + 1,
                                   !.processed_files[r] = Append(@, file_key),
                                   !.record_ix[r] = @ + 1, !.lpc[r] = "loop"]
                  ELSE [rds EXCEPT !.record_ix[r] = @ + 1, !.lpc[r] = "loop"]
  /\ UNCHANGED <<hvars, call>>

\* a handler that triggers the analysis after every event
ShouldInvokeAlways(files) == TRUE

\* line 129: if processed_files
ShouldInvoke(files) == files # <<>>

\* lines 124-141: after the loop, close the connection; without an inserted
\* file the run answers 200 at once
CloseConnection(r) ==
  /\ rds.lpc[r] = "loop" /\ rds.record_ix[r] > Len(rds.records[r])
  /\ \E ok \in BOOLEAN :
       rds' = IF ~ok THEN Fail500(rds, r)
              ELSE IF ShouldInvoke(rds.processed_files[r])
              THEN [rds EXCEPT !.connection[r] = "closed", !.lpc[r] = "invoke"]
              ELSE [rds EXCEPT !.connection[r] = "closed", !.lpc[r] = "done",
                               !.statusCode[r] = 200]
  /\ UNCHANGED <<hvars, call>>

\* lines 62-89, 130-141: one call of invoke_lambda2, which returns False when
\* the invocation raised; the run answers 200 either way
InvokeLambda2(r) ==
  /\ rds.lpc[r] = "invoke"
  /\ \E ok \in BOOLEAN :
       rds' = [rds EXCEPT !.lambda2_calls[r] = @ + 1, !.lambda2_invoked[r] = ok,
                         !.lpc[r] = "done", !.statusCode[r] = 200]
  /\ UNCHANGED <<hvars, call>>

NextRds ==
  \/ \E r \in Runs, recs \in RecordLists : StartRun(r, recs)
  \/ \E r \in Runs : CheckExists(r)
  \/ \E r \in Runs : InsertMetadata(r)
  \/ \E r \in Runs : CloseConnection(r)
  \/ \E r \in Runs : InvokeLambda2(r)

SpecRds == Init /\ [][NextRds]_vars

\* ================================================================ claims
\* a run that got as far as merging a well-formed observation: the event was
\* in scope, the observation was read, the summary fetch answered, and no
\* store round trip failed
WellFormed(meta) ==
  /\ meta.kind = "obs"
  /\ meta.has_labels
  /\ meta.labels # <<>>
  /\ meta.dominant_colors # <<>>
Merged(w) ==
  /\ pc[w] = "done"
  /\ event[w].in_scope
  /\ WellFormed(event[w].meta)
  /\ summary[w] # NoDoc
  /\ outcome[w] # "io_error"
Total(doc) == IF doc = NoDoc THEN 0 ELSE doc.total_photos
\* the day the merge counted the observation under
DayMerged(f, s) ==
  CHOOSE d \in Days : Cnt(s.per_day_counts, d) = Cnt(f.per_day_counts, d) + 1

Balanced(s) ==
  /\ Sum(s.per_day_counts) = s.total_photos
  /\ Sum(s.mood_counts) = s.total_photos
  /\ Sum(s.time_bucket_counts) = s.total_photos

C2_LostUpdate ==
  \A v, w \in Workers :
    ( /\ v # w
      /\ Merged(v) /\ Merged(w)
      /\ UserOf(event[v].meta) = UserOf(event[w].meta)
      /\ summary[v] = summary[w] )
    => /\ outcome[v] = "ok" /\ outcome[w] = "ok"
       /\ Total(store[UserOf(event[v].meta)]) = summary[v].total_photos + 1

C4_FailedMergeLeavesStore ==
  [][ \A w \in Workers :
        (pc[w] # "done" /\ pc'[w] = "done")
        => IF outcome'[w] = "ok"
           THEN store' = [store EXCEPT ![UserOf(event[w].meta)] = written'[w]]
           ELSE store' = store ]_vars

\* a run was aborted by an exception after it had fetched the summary, and
\* another run was aborted by a failed summary fetch
C4_Witness ==
  \E v, w \in Workers :
    /\ pc[v] = "done" /\ outcome[v] = "exception" /\ summary[v] # NoDoc
    /\ pc[w] = "done" /\ outcome[w] = "io_error" /\ summary[w] = NoDoc
    /\ event[w].in_scope /\ event[w].meta.kind = "obs"

BusiestIsMax(s) ==
  /\ HasKey(s.per_day_counts, s.busiest_day)
  /\ Cnt(s.per_day_counts, s.busiest_day) = MaxCnt(s.per_day_counts)

StrictGreater(f, s) ==
  LET d     == DayMerged(f, s)
      champ == f.busiest_day
  IN  /\ (s.busiest_day # champ
            => Cnt(s.per_day_counts, d) > Cnt(s.per_day_counts, champ))
      /\ (champ # None /\ Cnt(s.per_day_counts, d) <= Cnt(s.per_day_counts, champ)
            => /\ s.busiest_day = champ
               /\ Range(f.busiest_day_photos) \subseteq Range(s.busiest_day_photos))

Overtake(f, s, meta) ==
  LET d     == DayMerged(f, s)
      champ == f.busiest_day
  IN  (champ # None /\ d # champ
         /\ Cnt(s.per_day_counts, d) > Cnt(s.per_day_counts, champ))
      => /\ s.busiest_day = d
         /\ Len(s.busiest_day_photos) = 1
         /\ s.busiest_day_photos[1].thumb_key = thumb_key_of(meta)

TimelineBoundedSorted(s) ==
  /\ Len(s.busiest_day_photos) <= MAX_TIMELINE
  /\ \A i, j \in 1..Len(s.busiest_day_photos) :
       i < j => s.busiest_day_photos[i].time <= s.busiest_day_photos[j].time

TimelineCap(f, s) ==
  LET d == DayMerged(f, s)
  IN  (Len(f.busiest_day_photos) = MAX_TIMELINE /\ d = f.busiest_day)
      => /\ s.total_photos = f.total_photos + 1
         /\ Cnt(s.per_day_counts, d) = Cnt(f.per_day_counts, d) + 1
         /\ s.busiest_day_photos = f.busiest_day_photos

FirstSummary(s) ==
  /\ s.total_photos = 1
  /\ Len(s.mood_counts) = 1 /\ s.mood_counts[1][2] = 1
  /\ Len(s.time_bucket_counts) = 1 /\ s.time_bucket_counts[1][2] = 1
  /\ Len(s.per_day_counts) = 1 /\ s.per_day_counts[1][2] = 1
  /\ s.first_date = s.per_day_counts[1][1]
  /\ s.last_date = s.per_day_counts[1][1]
  /\ s.busiest_day = s.per_day_counts[1][1]
  /\ Len(s.busiest_day_photos) = 1

\* Scenario A: labels {smile, party}, upload_time 2024-01-01T10:00:00Z
ScenarioA(meta) ==
  /\ meta.kind = "obs"
  /\ meta.labels = <<"smile", "party">>
  /\ meta.capture_time = NoTs
  /\ meta.upload_time = IsoZ(1, 10, 0)

\* C11: the merge of a well-formed observation into the skeleton writes a
\* summary with total_photos 1, one mood, one time bucket and one day, each
\* counted once, first_date = last_date = busiest_day = that day and one
\* timeline entry; for Scenario A that is mood happy, bucket Morning, day
\* 2024-01-01 and the entry at 10:00.
C11_FirstMerge ==
  \A w \in Workers :
    (Merged(w) /\ summary[w] = Skeleton)
    => /\ written[w] # NoDoc
       /\ FirstSummary(written[w])
       /\ ScenarioA(event[w].meta)
            => /\ written[w].mood_counts = << <<"happy", 1>> >>
               /\ written[w].time_bucket_counts = << <<"Morning", 1>> >>
               /\ written[w].per_day_counts = << <<1, 1>> >>
               /\ written[w].busiest_day_photos[1].time = 1000

\* the logged merges of user u, all of them or those of day d
RECURSIVE Copies(_, _)
Copies(B, S) ==
  IF S = {} THEN 0
  ELSE LET e == CHOOSE x \in S : TRUE IN CopiesIn(e, B) + Copies(B, S \ {e})
MergesOf(u) == Copies(log.obs, {e \in BagToSet(log.obs) : UserOf(e.meta) = u})
MergesOn(u, d) ==
  Copies(log.obs, {e \in BagToSet(log.obs) : UserOf(e.meta) = u /\ e.dt.day = d})
PerDay(doc, d) == IF doc = NoDoc THEN 0 ELSE Cnt(doc.per_day_counts, d)

RECURSIVE Occ(_, _)
Occ(x, seq) ==
  IF seq = <<>> THEN 0 ELSE (IF Head(seq) = x THEN 1 ELSE 0) + Occ(x, Tail(seq))

Doubled(s, meta, dt) ==
  LET keys == [i \in 1..Len(meta.dominant_colors) |-> color_key(meta.dominant_colors[i])]
  IN  /\ s.total_photos = 2
      /\ Len(s.mood_counts) = 1 /\ s.mood_counts[1][2] = 2
      /\ s.time_bucket_counts = << <<hour_bucket(dt.hour), 2>> >>
      /\ s.per_day_counts = << <<dt.day, 2>> >>
      /\ Keys(s.label_counts) = Range(meta.labels)
      /\ \A l \in Range(meta.labels) : Cnt(s.label_counts, l) = 2 * Occ(l, meta.labels)
      /\ Keys(s.color_counts) = Range(keys)
      /\ \A k \in Range(keys) : Cnt(s.color_counts, k) = 2 * Occ(k, keys)

\* C13: when one observation was merged twice in succession (and nothing
\* else), the stored summary has total_photos 2 and every mood, time-bucket,
\* per-day, label and color entry of the observation at twice its
\* single-merge increment.
C13_NonIdempotence ==
  \A e \in BagToSet(log.obs) :
    (log.serial /\ CopiesIn(e, log.obs) = 2 /\ BagCardinality(log.obs) = 2)
    => /\ store[UserOf(e.meta)] # NoDoc
       /\ Doubled(store[UserOf(e.meta)], e.meta, e.dt)

\* C14: a merge whose timestamp cannot be parsed still writes a summary; it
\* counts the observation once in total_photos, in one mood, and in the time
\* bucket and the day of the processing time.
C14_BadTimestampStillMerges ==
  \A w \in Workers :
    (Merged(w) /\ ts_raw_of(event[w].meta) = BadTs)
    => /\ written[w] # NoDoc
       /\ written[w].total_photos = summary[w].total_photos + 1
       /\ Sum(written[w].mood_counts) = Sum(summary[w].mood_counts) + 1
       /\ \E now \in Nows :
            /\ Cnt(written[w].per_day_counts, now.day)
                 = Cnt(summary[w].per_day_counts, now.day) + 1
            /\ Cnt(written[w].time_bucket_counts, hour_bucket(now.hour))
                 = Cnt(summary[w].time_bucket_counts, hour_bucket(now.hour)) + 1

\* C15: parse_timestamp of a well-formed 'YYYY:MM:DD HH:MM:SS' text returns
\* the date and time the text names.
C15_FormatARecognized ==
  (call.fn = "parse_timestamp" /\ call.arg.fmt = "exif")
  => call.res = [day |-> call.arg.day, hour |-> call.arg.hour, minute |-> call.arg.minute]

\* C16: hour_bucket gives every hour 0..23 exactly one bucket: Night for
\* h >= 21 or h < 5, Morning for 5 <= h < 12, Afternoon for 12 <= h < 17,
\* Evening for 17 <= h < 21.
C16_HourBucketTable ==
  call.fn = "hour_bucket"
  => LET h == call.arg
     IN  /\ call.res \in {"Night", "Morning", "Afternoon", "Evening"}
         /\ (call.res = "Night")     <=> (h >= 21 \/ h < 5)
         /\ (call.res = "Morning")   <=> (5 <= h /\ h < 12)
         /\ (call.res = "Afternoon") <=> (12 <= h /\ h < 17)
         /\ (call.res = "Evening")   <=> (17 <= h /\ h < 21)

\* hour_bucket was called on the first hour of the night
C16_Witness == call.fn = "hour_bucket" /\ call.arg = 21 /\ call.res = "Night"

\* the moods of the table with a keyword among the labels, by table position
Matching(ls) ==
  {i \in 1..Len(MOOD_MAP) : Range(ls) \cap Range(MOOD_MAP[i][2]) # {}}

\* C17: label_to_mood returns, without raising, a mood of the table one of
\* whose keywords is among the labels, and "Undefined" exactly when no
\* keyword of any mood is among them.
C17_ExactlyOneMood ==
  call.fn = "label_to_mood"
  => /\ ~call.res.raised
     /\ (call.res.val = "Undefined") <=> (Matching(call.arg) = {})
     /\ call.res.val # "Undefined"
          => \E i \in Matching(call.arg) : call.res.val = MOOD_MAP[i][1]

\* C18: for labels with keywords of several moods, label_to_mood returns the
\* mood that comes first in the table, whatever the order of the labels.
C18_TableOrderPriority ==
  (call.fn = "label_to_mood" /\ Cardinality(Matching(call.arg)) >= 2)
  => /\ ~call.res.raised
     /\ \E i \in Matching(call.arg) :
          /\ \A j \in Matching(call.arg) : i <= j
          /\ call.res.val = MOOD_MAP[i][1]

\* C19: a run for a key outside the prefix is over at once: it reports 200,
\* has made no store round trip, holds no fetched summary and wrote nothing.
C19_OutOfScopeSkipped ==
  \A w \in Workers :
    (pc[w] # "idle" /\ ~event[w].in_scope)
    => /\ pc[w] = "done"
       /\ Reported(outcome[w]) = "200"
       /\ trips[w] = <<>>
       /\ summary[w] = NoDoc
       /\ written[w] = NoDoc

\* a run was skipped while another run had fetched a summary
C19_Witness ==
  \E v, w \in Workers :
    /\ pc[w] = "done" /\ outcome[w] = "skipped" /\ ~event[w].in_scope
    /\ pc[v] = "merge"

\* the observation could not be loaded: no object, an empty document, a body
\* that is not JSON, or a get_object that failed
Unloadable(w) ==
  \/ event[w].meta.kind \in {"nosuchkey", "empty", "badjson"}
  \/ outcome[w] = "io_error" /\ trips[w] = <<"get_meta">>
\* the observation was loaded but lacks a required field
Fieldless(w) == event[w].meta.kind = "obs" /\ ~event[w].meta.has_labels

FailureReported(w) ==
  /\ Reported(outcome[w]) \in {"500", "error"}
  /\ written[w] = NoDoc
  /\ "put_summary" \notin Range(trips[w])

C21_MissingSummaryStartsFromSkeleton ==
  \A w \in Workers :
    (Merged(w) /\ summary[w] = Skeleton)
    => /\ outcome[w] = "ok"
       /\ written[w] # NoDoc /\ written[w].total_photos = 1
       /\ store[UserOf(event[w].meta)] # NoDoc

DateRange(s) ==
  /\ s.first_date \in Keys(s.per_day_counts)
  /\ s.last_date \in Keys(s.per_day_counts)
  /\ \A d \in Keys(s.per_day_counts) : s.first_date <= d /\ d <= s.last_date

C24_AbsentUserIsUnknown ==
  [][ \A w \in Workers :
        ( /\ pc[w] = "merge" /\ pc'[w] = "done"
          /\ WellFormed(event[w].meta)
          /\ event[w].meta.user = AbsentField
          /\ outcome'[w] # "io_error" )
        => /\ written'[w] # NoDoc
           /\ store'["unknown"] = written'[w]
           /\ \A u \in Users \ {"unknown"} : store'[u] = store[u] ]_vars

LabelsAsSet(f, s, meta) ==
  \A l \in Keys(s.label_counts) \cup Keys(f.label_counts) \cup Range(meta.labels) :
    Cnt(s.label_counts, l)
      = Cnt(f.label_counts, l) + (IF l \in Range(meta.labels) THEN 1 ELSE 0)

\* C25: every merge of a well-formed observation writes a summary in which
\* the count of each distinct label of the observation is one more than
\* fetched, also for a label the observation lists more than once, and every
\* other label's count is as fetched.
C25_LabelsCountedOnce ==
  \A w \in Workers :
    Merged(w) => /\ written[w] # NoDoc
                 /\ LabelsAsSet(summary[w], written[w], event[w].meta)

\* the numbers of swatches the observations of user u carry
SwatchCounts(u) == {Len(m.dominant_colors) : m \in {o \in Observations : UserOf(o) = u}}

SwatchesCounted(f, s, meta) ==
  /\ Sum(s.color_counts) = Sum(f.color_counts) + Len(meta.dominant_colors)
  /\ \A k \in SwatchCounts(UserOf(meta)) :
       SwatchCounts(UserOf(meta)) = {k} => Sum(s.color_counts) = k * s.total_photos

DerivedConsistent(s) ==
  LET k == color_key(s.favourite_color)
  IN  /\ HasKey(s.label_counts, s.most_common_label)
      /\ Cnt(s.label_counts, s.most_common_label) = MaxCnt(s.label_counts)
      /\ HasKey(s.color_counts, k)
      /\ Cnt(s.color_counts, k) = MaxCnt(s.color_counts)
      /\ decode_color(k) = s.favourite_color

NormalizedAs(f, s, ts) ==
  \E now \in Nows :
    LET dt == parse_timestamp(ts, now)
    IN  /\ Cnt(s.per_day_counts, dt.day) = Cnt(f.per_day_counts, dt.day) + 1
        /\ Cnt(s.time_bucket_counts, hour_bucket(dt.hour))
             = Cnt(f.time_bucket_counts, hour_bucket(dt.hour)) + 1

BestsellingCnt(f, s) == Cnt(s.per_day_counts, f.busiest_day)

\* C30: every merge of a well-formed observation writes a summary; when the
\* fetched summary has no busiest_day, the champion count the merge compares
\* against is the count of the observation's day after its increment.
C30_ChampionDefaultsToToday ==
  \A w \in Workers :
    Merged(w)
    => /\ written[w] # NoDoc
       /\ summary[w].busiest_day = None
            => BestsellingCnt(summary[w], written[w])
                 = Cnt(written[w].per_day_counts, DayMerged(summary[w], written[w]))

RECURSIVE SeqMerged(_, _)
SeqMerged(u, n) ==
  IF n = 0 THEN {Skeleton}
  ELSE LET rs == {Merge(d, m, now) : d \in SeqMerged(u, n - 1),
                                     m \in {o \in Observations : UserOf(o) = u},
                                     now \in Nows}
       IN  {r.val : r \in {x \in rs : ~x.raised}}

TimelineWithinChampion(s) ==
  /\ s.busiest_day # None
  /\ 1 <= Len(s.busiest_day_photos)
  /\ Len(s.busiest_day_photos) <= MAX_TIMELINE
  /\ Len(s.busiest_day_photos) <= Cnt(s.per_day_counts, s.busiest_day)

C35_EmptyHistogramFailsInDerived ==
  ( /\ call.fn = "merge"
    /\ (call.arg.labels = <<>> \/ call.arg.dominant_colors = <<>>) )
  => call.res.raised /\ call.res.exc = "IndexError"

\* C37: a run of lambda_handler calls invoke_lambda2 at most once, and only
\* in a step taken after the loop went through all records, with the
\* connection closed and at least one file inserted by the run; a run that
\* ends without an inserted file has not called it.
C37_InvokeOnceAfterInserts ==
  [][ \A r \in Runs :
        /\ rds'.lambda2_calls[r] <= 1
        /\ rds'.lambda2_calls[r] # rds.lambda2_calls[r]
             => /\ rds.record_ix[r] > Len(rds.records[r])
                /\ rds.connection[r] = "closed"
                /\ rds.processed_files[r] # <<>>
                /\ \A i \in 1..Len(rds.processed_files[r]) :
                     rds.image_metadata[rds.processed_files[r][i]] > 0
        /\ (rds'.lpc[r] = "done" /\ rds'.processed_files[r] = <<>>)
             => rds'.lambda2_calls[r] = 0 ]_vars

\* one run inserted its first record, skipped the second (same key) and then
\* called invoke_lambda2 once; another run found all its records present and
\* answered 200 without calling it
C37_Witness ==
  \E q, r \in Runs :
    /\ rds.lpc[q] = "done" /\ rds.statusCode[q] = 200
    /\ Len(rds.records[q]) = 2 /\ Len(rds.processed_files[q]) = 1
    /\ rds.lambda2_calls[q] = 1 /\ rds.connection[q] = "closed"
    /\ rds.lpc[r] = "done" /\ rds.statusCode[r] = 200
    /\ rds.records[r] # <<>> /\ rds.processed_files[r] = <<>>
    /\ rds.lambda2_calls[r] = 0 /\ rds.connection[r] = "closed"

\* C38: under any interleaving of runs of lambda_handler the table holds at
\* most one image_metadata row per file_name.
C38_OneRowPerFileName ==
  \A k \in FileKeys : rds.image_metadata[k] <= 1

====
